---- MODULE Spec2Model ----
(***************************************************************************)
(* dProp (src/app.js): the live catalogue view of a GenosDB database.      *)
(*                                                                         *)
(* The module holds seven specifications over one set of variables:        *)
(*   Spec      the view under a stream of change events:                   *)
(*             handleRealtimeUpdate, updateMapMarker, the fade-out timer   *)
(*   SpecSub   the subscriptions and the cursor under overlapping          *)
(*             performSearch calls, with a single live change event        *)
(*   SpecPerm  the cards createCardHTML renders for live events, under     *)
(*             logins and logouts                                          *)
(*   SpecMut   the edit flow of the publish-form submit handler, with      *)
(*             another peer changing the status of the record or removing  *)
(*             it                                                          *)
(*   SpecOps   changeStatus, confirmShare and the submit handler (create   *)
(*             and edit), one handler at a time, over a populated view     *)
(*   SpecFail  performSearch when db.map rejects, and the identity         *)
(*             functions when the store refuses                            *)
(*   SpecRace  one changeStatus, one edit and one confirmShare on the same *)
(*             record, overlapping at their awaits, every call resolving   *)
(*                                                                         *)
(* The store (GenosDB) is outside the repository.  Its catalogue is a      *)
(* fixed set of records ordered by createdAt; the change notifications it  *)
(* sends to a subscription's callback are inputs of the model.  A db.map   *)
(* call takes two steps: the store delivers the page to the callback, and  *)
(* later the await of performSearch resumes; other handlers may run in     *)
(* between.                                                                *)
(***************************************************************************)
EXTENDS Integers, Sequences, FiniteSets, TLC

\* ---------------------------------------------------------------- bounds
NumSale  == 25   \* records of the catalogue matching the filter "sale"
NumRent  == 1    \* records of the catalogue matching the filter "rent"
MaxCalls == 3    \* performSearch invocations in one behaviour of SpecSub, SpecFail
MaxViewCalls == 2 \* performSearch invocations in one behaviour of Spec, SpecPerm
NumUsers == 3    \* identities (eth addresses)
MaxWrites == 2   \* db.sm.acls.set calls in one behaviour of SpecMut, SpecOps
MaxAlerts == 2   \* alert() calls in one behaviour of SpecMut, SpecOps

\* ------------------------------------------------------ program constants
PageSize == 12   \* $limit: 12, results.length < 12
Null     == 0    \* null or undefined

VARIABLES
    \* --- the view (Spec)
    form,               \* the search-form's filter, read by performSearch
    grid,               \* children of #property-grid: <<[id, value, fading]>>
    mapMarkers,         \* mapMarkers: record id -> marker content
    currentCursor,      \* currentCursor
    activeSubscription, \* activeSubscription: index into subs, or Null
    loadMoreHidden,     \* #btn-load-more carries the class "hidden"
    pending,            \* performSearch calls awaiting db.map; sub is the
                        \* subscription of a call whose page was delivered
    subs,               \* subscriptions opened by db.map, in opening order
    cursorSrc,          \* history: the page currentCursor was taken from
    expect,             \* history: per id, what its last event carried
    \* --- createCardHTML (SpecPerm)
    currentUser,        \* db.sm.getActiveEthAddress()
    cardP,              \* the record p of the card last put in the grid
    card,               \* the controls of that card; NoCard when the grid
                        \* has been emptied since
    \* --- publish-form submit handler (SpecMut)
    node,               \* the store's record for the edited id, or NoNode
    editPc,             \* position of the submit handler
    fd,                 \* form data of the running submit handler, or NoFd
    oldNode,            \* its result of db.get(editId), or NoNode
    writes,             \* values passed to db.sm.acls.set, in order
    alerts,             \* number of alert() calls
    \* --- changeStatus, confirmShare, create flow (SpecOps)
    statusPc,           \* position of changeStatus
    statusArg,          \* newStatus
    sharePc,            \* position of confirmShare
    shareAddr,          \* addr of the running confirmShare, or Null
    creates,            \* values passed to db.sm.acls.set without an id
    lastAlert,          \* text of the last alert(); history: what raised it
    \* --- db.map rejections (SpecFail)
    mapFailed,          \* history: the db.map calls of performSearch that
                        \* rejected, counted
    \* --- another peer
    peerRead            \* the record a peer's changeStatus read, or NoNode

viewVars == <<form, grid, mapMarkers, currentCursor, activeSubscription,
              loadMoreHidden, pending, subs, cursorSrc, expect>>
permVars == <<currentUser, cardP, card>>
opsVars  == <<statusPc, statusArg, sharePc, shareAddr, creates, lastAlert,
              mapFailed>>
mutVars  == <<node, editPc, fd, oldNode, writes, alerts, opsVars, peerRead>>
vars     == <<viewVars, permVars, mutVars>>

\* ------------------------------------------------------------- the store
Filters  == {"sale", "rent"}

\* createdAt of record i is i: a larger id is a newer record.
Matches(q) ==
    IF q = "sale" THEN 1..NumSale ELSE (NumSale + 1)..(NumSale + NumRent)

FreshId  == NumSale + NumRent + 1
AllIds   == 1..FreshId
\* the ids live change events are drawn from: the newest "sale" record and
\* a record that is in no page
EventIds == {NumSale, FreshId}

\* a record value as far as the view reads it: status, and whether lat/lng
\* are both set
EventValues == {[status |-> "reserved", geo |-> TRUE],
                [status |-> "sold", geo |-> FALSE]}
\* the value the live "added" and "updated" events of Spec carry
StreamValues == {[status |-> "reserved", geo |-> TRUE]}
CatalogueValue(i) == [status |-> "available", geo |-> (i % 2 = 1)]
NoValue == [status |-> "none", geo |-> FALSE]

SetMax(S) == CHOOSE m \in S : \A x \in S : x <= m

Min(a, b) == IF a < b THEN a ELSE b

\* db.map({query, $limit: 12, $after, order: "desc", field: "createdAt"}):
\* the first PageSize records of the query after the cursor record
\* (the records of a query have consecutive ids: the records older than
\* the cursor are an interval, and the page counts down from its newest)
Page(q, after) ==
    LET lo  == IF q = "sale" THEN 1 ELSE NumSale + 1
        hi  == IF q = "sale" THEN NumSale ELSE NumSale + NumRent
        top == IF after = Null THEN hi ELSE Min(hi, after - 1)
        n   == IF top < lo THEN 0 ELSE Min(PageSize, top - lo + 1)
    IN  [k \in 1..n |-> top - k + 1]

\* --------------------------------------------------------- updateMapMarker
NoMarkers == [k \in {} |-> "none"]

PutMarker(m, id, c) ==
    [k \in (DOMAIN m) \cup {id} |-> IF k = id THEN c ELSE m[k]]

DeleteMarker(m, id) == [k \in (DOMAIN m) \ {id} |-> m[k]]

\* p = [id, geo, status]; geo is (p.lat && p.lng)
updateMapMarker(m, p) ==
    IF ~p.geo THEN m
    ELSE IF p.status = "deleted"
         THEN (IF p.id \in DOMAIN m THEN DeleteMarker(m, p.id) ELSE m)
         ELSE PutMarker(m, p.id, p.status)

\* ----------------------------------------------------------- createCardHTML
Users      == 1..NumUsers
Identities == Users \cup {Null}
Levels     == {"write", "read"}

\* the identities that records list as collaborators
Collaborators == {1, 2}

\* p as far as createCardHTML's permission logic reads it.  collaborators
\* is a map from identities to levels; hasCollaborators is FALSE for a value
\* without the field.
CollabMaps == UNION {[D -> Levels] : D \in SUBSET Collaborators}
NoCollab   == [k \in {} |-> "none"]
CardRecords ==
    [owner : Identities, hasCollaborators : {TRUE},
     collaborators : CollabMaps]
    \cup [owner : Identities, hasCollaborators : {FALSE},
          collaborators : {NoCollab}]

\* p.collaborators[currentUser]
Level(c, u) == IF u \in DOMAIN c THEN c[u] ELSE "undefined"

\* line 201: currentUser && p.owner === currentUser
isOwner(u, p) == u # Null /\ p.owner = u

\* mutant: any collaborator entry counts, whatever its level
isCollabAnyLevel(u, p) == p.hasCollaborators /\ u \in DOMAIN p.collaborators

\* line 205: p.collaborators && p.collaborators[currentUser] === "write"
isCollab(u, p) == p.hasCollaborators /\ Level(p.collaborators, u) = "write"

\* line 206
canEdit(u, p) == isOwner(u, p) \/ isCollab(u, p)

\* lines 239-299: the controls of the card
createCardHTML(u, p) ==
    [rendered |-> TRUE,
     share    |-> canEdit(u, p) /\ isOwner(u, p),   \* lines 240-247
     edit     |-> canEdit(u, p),                     \* lines 240, 249-251
     status   |-> canEdit(u, p)]                     \* lines 277-283

NoCard == [rendered |-> FALSE, share |-> FALSE, edit |-> FALSE,
           status |-> FALSE]
NoP    == [owner |-> Null, hasCollaborators |-> FALSE,
           collaborators |-> NoCollab]

\* ---------------------------------------------------- handleRealtimeUpdate
\* mutant: the lookup uses another element id and never finds the card
existingCardNotFound(g, id) == 0

\* document.getElementById(cardId): position of the first card, 0 if none
existingCard(g, id) ==
    LET found == {i \in 1..Len(g) : g[i].id = id}
    IN  IF found = {} THEN 0
        ELSE CHOOSE i \in found : \A j \in found : i <= j

NewCard(id, value) == [id |-> id, value |-> value, fading |-> FALSE]

\* mutant: "added" and "initial" append without looking at existingCard
handleRealtimeUpdateAppends(view, id, value, action) ==
    LET e == existingCard(view.grid, id) IN
    IF action = "removed"
    THEN [grid    |-> IF e # 0
                      THEN [view.grid EXCEPT ![e].fading = TRUE]
                      ELSE view.grid,
          markers |-> updateMapMarker(view.markers,
                        [id |-> id, geo |-> FALSE, status |-> "deleted"])]
    ELSE LET m == updateMapMarker(view.markers,
                    [id |-> id, geo |-> value.geo, status |-> value.status])
         IN  IF action = "added" \/ action = "initial"
             THEN [grid    |-> Append(view.grid, NewCard(id, value)),
                   markers |-> m]
             ELSE IF e # 0
                  THEN [grid |-> [view.grid EXCEPT ![e] = NewCard(id, value)],
                        markers |-> m]
                  ELSE [grid |-> view.grid, markers |-> m]

\* mutant: an existing card is taken out and the new one put at the tail
handleRealtimeUpdateMoves(view, id, value, action) ==
    LET e == existingCard(view.grid, id) IN
    IF action = "removed"
    THEN [grid    |-> IF e # 0
                      THEN [view.grid EXCEPT ![e].fading = TRUE]
                      ELSE view.grid,
          markers |-> updateMapMarker(view.markers,
                        [id |-> id, geo |-> FALSE, status |-> "deleted"])]
    ELSE LET m == updateMapMarker(view.markers,
                    [id |-> id, geo |-> value.geo, status |-> value.status])
         IN  IF e # 0
             THEN [grid    |-> SubSeq(view.grid, 1, e - 1)
                                  \o SubSeq(view.grid, e + 1, Len(view.grid))
                                  \o <<NewCard(id, value)>>,
                   markers |-> m]
             ELSE IF action = "added" \/ action = "initial"
                  THEN [grid    |-> Append(view.grid, NewCard(id, value)),
                        markers |-> m]
                  ELSE [grid |-> view.grid, markers |-> m]

\* view = [grid, markers]
handleRealtimeUpdate(view, id, value, action) ==
    LET e == existingCard(view.grid, id) IN
    IF action = "removed"
    THEN [grid    |-> IF e # 0
                      THEN [view.grid EXCEPT ![e].fading = TRUE]
                      ELSE view.grid,
          markers |-> updateMapMarker(view.markers,
                        [id |-> id, geo |-> FALSE, status |-> "deleted"])]
    ELSE LET m == updateMapMarker(view.markers,
                    [id |-> id, geo |-> value.geo, status |-> value.status])
         IN  IF e # 0
             THEN [grid    |-> [view.grid EXCEPT ![e] = NewCard(id, value)],
                   markers |-> m]
             ELSE IF action = "added" \/ action = "initial"
                  THEN [grid    |-> Append(view.grid, NewCard(id, value)),
                        markers |-> m]
                  ELSE [grid |-> view.grid, markers |-> m]

View == [grid |-> grid, markers |-> mapMarkers]

\* what the last event for an id carried
Carried(value, action) ==
    IF action = "removed" THEN [kind |-> "absent", value |-> NoValue]
    ELSE [kind |-> "value", value |-> value]
Unknown == [kind |-> "unknown", value |-> NoValue]

\* the store calls the callback with action "initial" for each record of
\* the page, in order
RECURSIVE FoldInitial(_, _)
FoldInitial(view, results) ==
    IF results = <<>> THEN view
    ELSE FoldInitial(
           handleRealtimeUpdate(view, Head(results),
                                CatalogueValue(Head(results)), "initial"),
           Tail(results))

InSeq(s, x) == \E i \in 1..Len(s) : s[i] = x

\* ------------------------------------------------------------ performSearch
NoSrc == [query |-> "none", lm |-> FALSE, full |-> FALSE]

\* mutant: the view is cleared for a load-more too
performSearchClears(isLoadMore) ==
    /\ grid' = <<>>
    /\ currentCursor' = Null
    /\ subs' = [s \in 1..Len(subs) |->
                  [subs[s] EXCEPT
                     !.open = IF s = activeSubscription THEN FALSE ELSE @,
                     !.old  = TRUE]]
    /\ mapMarkers' = NoMarkers
    /\ cursorSrc' = NoSrc
    /\ expect' = [i \in EventIds |-> Unknown]
    /\ cardP' = NoP
    /\ card' = NoCard
    /\ pending' = Append(pending,
                         [lm       |-> isLoadMore,
                          query    |-> form',
                          after    |-> currentCursor',
                          afterSrc |-> cursorSrc'.query,
                          sub      |-> Null])
    /\ UNCHANGED <<activeSubscription, loadMoreHidden>>

\* lines 114-144: up to the await of db.map.  The filter is read from the
\* search form at the call (lines 123-132).
performSearch(isLoadMore) ==
    /\ IF ~isLoadMore
       THEN /\ grid' = <<>>
            /\ currentCursor' = Null
            \* if (activeSubscription) activeSubscription(); every
            \* subscription opened so far is from now on an old one
            /\ subs' = [s \in 1..Len(subs) |->
                          [subs[s] EXCEPT
                             !.open = IF s = activeSubscription
                                      THEN FALSE ELSE @,
                             !.old  = TRUE]]
            /\ mapMarkers' = NoMarkers
            /\ cursorSrc' = NoSrc
            /\ expect' = [i \in EventIds |-> Unknown]
            \* the grid is empty: no card is shown
            /\ cardP' = NoP
            /\ card' = NoCard
       ELSE UNCHANGED <<grid, currentCursor, subs, mapMarkers, cursorSrc,
                        expect, cardP, card>>
    /\ pending' = Append(pending,
                         [lm       |-> isLoadMore,
                          query    |-> form',
                          after    |-> currentCursor',
                          afterSrc |-> cursorSrc'.query,
                          sub      |-> Null])
    /\ UNCHANGED <<activeSubscription, loadMoreHidden>>

\* the user changes the search form without submitting it; performSearch
\* reads the form at its next call, lines 123-132
FormEdit(q) ==
    /\ q # form
    /\ form' = q
    /\ UNCHANGED <<grid, mapMarkers, currentCursor, activeSubscription,
                   loadMoreHidden, pending, subs, cursorSrc, expect,
                   permVars, mutVars>>

\* search-form submit listener, lines 512-515
SubmitSearch ==
    /\ form' = form
    /\ performSearch(FALSE)
    /\ UNCHANGED <<currentUser, mutVars>>

\* updateAuthUI, lines 453-470, called by the store on a security state
\* change that leaves the active address as it was: both branches end in
\* performSearch(false)
updateAuthUI ==
    /\ form' = form
    /\ performSearch(FALSE)
    /\ UNCHANGED <<currentUser, mutVars>>

\* the active address changes (login, logout) and the store calls
\* updateAuthUI, lines 453-470
IdentityChange(u) ==
    /\ u # currentUser
    /\ currentUser' = u
    /\ form' = form
    /\ performSearch(FALSE)
    /\ UNCHANGED mutVars

\* window.loadMore, line 511: the click on #btn-load-more
loadMore ==
    /\ ~loadMoreHidden
    /\ form' = form
    /\ performSearch(TRUE)
    /\ UNCHANGED <<currentUser, mutVars>>

RemoveAt(s, i) == SubSeq(s, 1, i - 1) \o SubSeq(s, i + 1, Len(s))

\* db.map runs for the i-th pending call: the subscription is opened and
\* the page is delivered to the callback of line 143, one "initial" event
\* per record; the await of line 134 has not resumed yet
MapDeliver(i) ==
    /\ i \in 1..Len(pending)
    /\ pending[i].sub = Null
    /\ LET c       == pending[i]
           results == Page(c.query, c.after)
           v       == FoldInitial(View, results)
       IN  /\ grid' = v.grid
           /\ mapMarkers' = v.markers
           /\ expect' = [k \in EventIds |->
                           IF InSeq(results, k)
                           THEN Carried(CatalogueValue(k), "initial")
                           ELSE expect[k]]
           /\ subs' = Append(subs, [query |-> c.query, after |-> c.after,
                                    lm |-> c.lm, open |-> TRUE,
                                    old |-> FALSE])
           /\ IF results # <<>>
              THEN /\ cardP' = NoP
                   /\ card' = createCardHTML(currentUser, NoP)
              ELSE UNCHANGED <<cardP, card>>
    /\ pending' = [pending EXCEPT ![i].sub = Len(subs) + 1]
    /\ UNCHANGED <<form, currentCursor, activeSubscription, loadMoreHidden,
                   cursorSrc, currentUser, mutVars>>

\* mutant: the cursor moves only when the page is full
MapResumeShortKeepsCursor(i) ==
    /\ i \in 1..Len(pending)
    /\ pending[i].sub # Null
    /\ LET c       == pending[i]
           results == Page(c.query, c.after)
       IN  /\ activeSubscription' = c.sub
           /\ loadMoreHidden' = (Len(results) < PageSize)
           /\ IF Len(results) = PageSize
              THEN /\ currentCursor' = results[Len(results)]
                   /\ cursorSrc' = [query |-> c.query, lm |-> c.lm,
                                    full |-> (Len(results) = PageSize)]
              ELSE UNCHANGED <<currentCursor, cursorSrc>>
    /\ pending' = RemoveAt(pending, i)
    /\ UNCHANGED <<form, grid, mapMarkers, subs, expect, permVars, mutVars>>

\* the await of line 134 resumes for the i-th pending call, whose page was
\* delivered: lines 146-154
MapResume(i) ==
    /\ i \in 1..Len(pending)
    /\ pending[i].sub # Null
    /\ LET c       == pending[i]
           results == Page(c.query, c.after)
       IN  /\ activeSubscription' = c.sub
           /\ loadMoreHidden' = (Len(results) < PageSize)
           /\ IF Len(results) > 0
              THEN /\ currentCursor' = results[Len(results)]
                   /\ cursorSrc' = [query |-> c.query, lm |-> c.lm,
                                    full |-> (Len(results) = PageSize)]
              ELSE UNCHANGED <<currentCursor, cursorSrc>>
    /\ pending' = RemoveAt(pending, i)
    /\ UNCHANGED <<form, grid, mapMarkers, subs, expect, permVars, mutVars>>

\* the callback of db.map, line 143: subscription s reports a change of a
\* record whose value carries the owner and the collaborators of p;
\* handleRealtimeUpdate renders the card for the active address and puts it
\* in the grid, or drops it when an "updated" finds no card
RenderCard(s, id, value, p, action) ==
    /\ s \in 1..Len(subs)
    /\ subs[s].open
    /\ LET v == handleRealtimeUpdate(View, id, value, action)
       IN  /\ grid' = v.grid
           /\ mapMarkers' = v.markers
           /\ IF action # "removed"
                 /\ (existingCard(grid, id) # 0 \/ action # "updated")
              THEN /\ cardP' = p
                   /\ card' = createCardHTML(currentUser, p)
              ELSE UNCHANGED <<cardP, card>>
    /\ expect' = [expect EXCEPT ![id] = Carried(value, action)]
    /\ UNCHANGED <<form, currentCursor, activeSubscription, loadMoreHidden,
                   pending, subs, cursorSrc, currentUser, mutVars>>

\* the same for a record whose value has no owner and no collaborators
ChangeEvent(s, id, value, action) == RenderCard(s, id, value, NoP, action)

\* setTimeout(() => existingCard.remove(), 300), line 165
CardRemoveTimer(i) ==
    /\ i \in 1..Len(grid)
    /\ grid[i].fading
    /\ grid' = RemoveAt(grid, i)
    /\ UNCHANGED <<form, mapMarkers, currentCursor, activeSubscription,
                   loadMoreHidden, pending, subs, cursorSrc, expect,
                   permVars, mutVars>>

\* ------------------------------------------- publish-form submit, edit flow
\* Number(fd.get(...)) on the strings the model submits
Number(str) ==
    CASE str = ""      -> "0"
      [] str = "250"   -> "250"
      [] str = " 250 " -> "250"
      [] OTHER         -> "NaN"

\* { ...a, ...b }
Spread(a, b) ==
    [k \in (DOMAIN a) \cup (DOMAIN b) |->
        IF k \in DOMAIN b THEN b[k] ELSE a[k]]

\* the submitted form: title stands for the text inputs, price for the
\* inputs read through Number(); createdAt and owner are entries a forged
\* submission adds
Forms == [title : {"loft"}, price : {" 250 ", "abc"},
          createdAt : {Null, 99}, owner : {Null, NumUsers}]

\* a collaborators map with one entry, of level read
OneReader == [u \in {2} |-> "read"]

\* the stored records of the edited id
Records ==
    [type : {"Property"}, title : {"flat"}, price : {"100"},
     status : {"available", "sold"}, createdAt : {1, 2}, owner : {1, 2},
     collaborators : {NoCollab, OneReader}]

NoNode == [present |-> FALSE, value |-> [k \in {} |-> ""]]
Node(v) == [present |-> TRUE, value |-> v]

\* lines 403-419 with editId set
propertyData(f) ==
    [type      |-> "Property",
     title     |-> f.title,
     price     |-> Number(f.price),
     createdAt |-> Null]

\* mutant: the merge without the line that restores createdAt
finalDataNoRestore(old, f) == Spread(old, propertyData(f))

\* lines 428-432
finalData(old, f) ==
    Spread(Spread(old, propertyData(f)), [createdAt |-> old.createdAt])

\* the alert() texts of lines 315, 359, 375, 379 and 448
StatusAlert  == "Permission denied. You are not an owner or collaborator."
AddressAlert == "Invalid ETH address"
GrantedAlert == "Access granted to"
ShareAlert   == "Error granting access. Ensure you are the owner."
SaveAlert    == "Error saving property. Permission denied?"

NoAlert == [msg |-> "", cause |-> "none"]
Alert(msg, cause) == [msg |-> msg, cause |-> cause]

\* the last value a flow passed to db.sm.acls.set(value, id)
LastBy(flow) ==
    LET own == {i \in 1..Len(writes) : writes[i].by = flow}
    IN  writes[SetMax(own)].value

NoFd == [title |-> "", price |-> "", createdAt |-> Null, owner |-> Null]

\* lines 396-425: submit with #edit-node-id set, up to await db.get(editId)
SubmitEdit(f) ==
    /\ editPc = "idle"
    /\ fd' = f
    /\ editPc' = "get"
    /\ UNCHANGED <<node, oldNode, writes, alerts, opsVars, viewVars, permVars, peerRead>>

\* lines 425-434: db.get resolved; oldNode.value of a missing node throws
\* and the catch of lines 446-449 alerts
EditGot ==
    /\ editPc = "get"
    /\ IF node.present
       THEN /\ writes' = Append(writes,
                            [value |-> finalData(node.value, fd),
                             read  |-> node.value,
                             fd    |-> fd,
                             by    |-> "edit"])
            /\ editPc' = "set"
            /\ oldNode' = node
            /\ UNCHANGED <<alerts, lastAlert, fd>>
       ELSE /\ alerts' = alerts + 1
            /\ lastAlert' = Alert(SaveAlert, "edit-read")
            /\ editPc' = "idle"
            /\ fd' = NoFd
            /\ oldNode' = NoNode
            /\ UNCHANGED writes
    /\ UNCHANGED <<node, statusPc, statusArg, sharePc, shareAddr, creates,
                   mapFailed, viewVars, permVars, peerRead>>

\* db.sm.acls.set resolved: the store took the value; lines 444-445
EditSetDone ==
    /\ editPc = "set"
    /\ node' = Node(LastBy("edit"))
    /\ editPc' = "idle"
    /\ fd' = NoFd
    /\ oldNode' = NoNode
    /\ UNCHANGED <<writes, alerts, opsVars, viewVars, permVars, peerRead>>

\* db.sm.acls.set rejected: lines 446-449
EditSetDenied ==
    /\ editPc = "set"
    /\ alerts' = alerts + 1
    /\ lastAlert' = Alert(SaveAlert, "edit-write")
    /\ editPc' = "idle"
    /\ fd' = NoFd
    /\ oldNode' = NoNode
    /\ UNCHANGED <<node, writes, statusPc, statusArg, sharePc,
                   shareAddr, creates, mapFailed, viewVars, permVars, peerRead>>

\* ------------------------------------- publish-form submit, create flow
\* lines 403-419 with editId empty: createdAt is Date.now()
newPropertyData(f, now) == [propertyData(f) EXCEPT !.createdAt = now]

\* mutant: owner and createdAt entries of the form survive
createDataFormWins(f, now, user) ==
    Spread([owner |-> user, status |-> "available", collaborators |-> NoCollab,
            createdAt |-> now],
           [type      |-> "Property",
            title     |-> f.title,
            price     |-> Number(f.price),
            owner     |-> IF f.owner = Null THEN user ELSE f.owner,
            createdAt |-> IF f.createdAt = Null THEN now ELSE f.createdAt])

\* lines 437-439
createData(f, now, user) ==
    Spread(newPropertyData(f, now),
           [owner |-> user, status |-> "available", collaborators |-> NoCollab])

\* lines 396-441: submit with #edit-node-id empty, up to await acls.set
SubmitPublish(f, now) ==
    /\ editPc = "idle"
    /\ fd' = f
    /\ creates' = Append(creates, [value |-> createData(f, now, currentUser),
                                   fd    |-> f,
                                   now   |-> now,
                                   user  |-> currentUser])
    /\ editPc' = "create"
    /\ UNCHANGED <<node, oldNode, writes, alerts, statusPc, statusArg, sharePc,
                   shareAddr, lastAlert, mapFailed, viewVars, permVars, peerRead>>

\* db.sm.acls.set(propertyData) resolved; lines 444-445
CreateDone ==
    /\ editPc = "create"
    /\ editPc' = "idle"
    /\ fd' = NoFd
    /\ UNCHANGED <<node, oldNode, writes, alerts, opsVars, viewVars,
                   permVars, peerRead>>

\* db.sm.acls.set(propertyData) rejected; lines 446-449
CreateDenied ==
    /\ editPc = "create"
    /\ alerts' = alerts + 1
    /\ lastAlert' = Alert(SaveAlert, "create-write")
    /\ editPc' = "idle"
    /\ fd' = NoFd
    /\ UNCHANGED <<node, oldNode, writes, statusPc, statusArg, sharePc,
                   shareAddr, creates, mapFailed, viewVars, permVars, peerRead>>

\* ------------------------------------------------------------ changeStatus
Statuses == {"available", "reserved", "sold"}

\* mutant: the written value also resets createdAt
updatedStatusDataResets(value, newStatus) ==
    Spread(value, [status |-> newStatus, createdAt |-> Null])

\* line 312: { ...node.value, status: newStatus }
updatedStatusData(value, newStatus) == Spread(value, [status |-> newStatus])

\* lines 308-310: up to await db.get(id)
changeStatus(newStatus) ==
    /\ statusPc = "idle"
    /\ statusArg' = newStatus
    /\ statusPc' = "get"
    /\ UNCHANGED <<node, editPc, fd, oldNode, writes, alerts, sharePc,
                   shareAddr, creates, lastAlert, mapFailed, viewVars,
                   permVars, peerRead>>

\* mutant: a missing node is written as a bare status
StatusGotWritesAbsent ==
    /\ statusPc = "get"
    /\ writes' = Append(writes,
                     [value |-> updatedStatusData(node.value, statusArg),
                      read  |-> node.value,
                      fd    |-> NoFd,
                      by    |-> "status"])
    /\ statusPc' = "set"
    /\ UNCHANGED <<node, editPc, fd, oldNode, alerts, statusArg, sharePc,
                   shareAddr, creates, lastAlert, mapFailed, viewVars,
                   permVars, peerRead>>

\* lines 310-313: db.get resolved; a missing node ends the handler
StatusGot ==
    /\ statusPc = "get"
    /\ IF node.present
       THEN /\ writes' = Append(writes,
                            [value |-> updatedStatusData(node.value, statusArg),
                             read  |-> node.value,
                             fd    |-> NoFd,
                             by    |-> "status"])
            /\ statusPc' = "set"
       ELSE /\ statusPc' = "idle"
            /\ UNCHANGED writes
    /\ UNCHANGED <<node, editPc, fd, oldNode, alerts, statusArg, sharePc,
                   shareAddr, creates, lastAlert, mapFailed, viewVars,
                   permVars, peerRead>>

\* mutant: the resolved write is also patched into the first card
StatusSetDonePatchesGrid ==
    /\ statusPc = "set"
    /\ node' = Node(LastBy("status"))
    /\ statusPc' = "idle"
    /\ grid' = IF grid = <<>> THEN grid
               ELSE [grid EXCEPT ![1].value = [status |-> "patched",
                                               geo    |-> FALSE]]
    /\ UNCHANGED <<editPc, fd, oldNode, writes, alerts, statusArg, sharePc,
                   shareAddr, creates, lastAlert, mapFailed, permVars, peerRead,
                   form, mapMarkers, currentCursor, activeSubscription,
                   loadMoreHidden, pending, subs, cursorSrc, expect>>

\* line 313: db.sm.acls.set resolved, the store took the value
StatusSetDone ==
    /\ statusPc = "set"
    /\ node' = Node(LastBy("status"))
    /\ statusPc' = "idle"
    /\ UNCHANGED <<editPc, fd, oldNode, writes, alerts, statusArg, sharePc,
                   shareAddr, creates, lastAlert, mapFailed, viewVars,
                   permVars, peerRead>>

\* mutant: a rejected write is submitted again
StatusSetDeniedRetries ==
    /\ statusPc = "set"
    /\ writes' = Append(writes, writes[Len(writes)])
    /\ alerts' = alerts + 1
    /\ lastAlert' = Alert(StatusAlert, "status-write")
    /\ UNCHANGED <<node, editPc, fd, oldNode, statusPc, statusArg, sharePc,
                   shareAddr, creates, mapFailed, viewVars, permVars, peerRead>>

\* lines 314-316: db.sm.acls.set rejected
StatusSetDenied ==
    /\ statusPc = "set"
    /\ alerts' = alerts + 1
    /\ lastAlert' = Alert(StatusAlert, "status-write")
    /\ statusPc' = "idle"
    /\ UNCHANGED <<node, editPc, fd, oldNode, writes, statusArg, sharePc,
                   shareAddr, creates, mapFailed, viewVars, permVars, peerRead>>

\* ------------------------------------------------------------ confirmShare
\* #share-address: an eth address, or the empty field openShareModal leaves
Addresses == Users \cup {Null}

\* addr.startsWith("0x")
startsWith0x(addr) == addr \in Users

\* lines 369-370: node.value.collaborators || {}, then [addr] = "write"
currentCollaborators(value, addr) ==
    [k \in (DOMAIN value.collaborators) \cup {addr} |->
        IF k = addr THEN "write" ELSE value.collaborators[k]]

\* line 372
sharedData(value, addr) ==
    Spread(value, [collaborators |-> currentCollaborators(value, addr)])

\* lines 377-380: the one catch of confirmShare; cause is history
shareCatch(cause) == Alert(ShareAlert, cause)

\* lines 355-363: up to await db.sm.acls.grant(id, addr, "write")
confirmShare(addr) ==
    /\ sharePc = "idle"
    /\ IF startsWith0x(addr)
       THEN /\ shareAddr' = addr
            /\ sharePc' = "grant"
            /\ UNCHANGED <<alerts, lastAlert>>
       ELSE /\ alerts' = alerts + 1
            /\ lastAlert' = Alert(AddressAlert, "address")
            /\ UNCHANGED <<shareAddr, sharePc>>
    /\ UNCHANGED <<node, editPc, fd, oldNode, writes, statusPc, statusArg,
                   creates, mapFailed, viewVars, permVars, peerRead>>

\* line 363 resolved, up to await db.get(id)
ShareGranted ==
    /\ sharePc = "grant"
    /\ sharePc' = "get"
    /\ UNCHANGED <<node, editPc, fd, oldNode, writes, alerts, statusPc,
                   statusArg, shareAddr, creates, lastAlert, mapFailed,
                   viewVars, permVars, peerRead>>

\* mutant: the record is written although the grant was rejected
ShareGrantDeniedWrites ==
    /\ sharePc = "grant"
    /\ alerts' = alerts + 1
    /\ lastAlert' = shareCatch("grant")
    /\ sharePc' = "idle"
    /\ shareAddr' = Null
    /\ writes' = Append(writes, [value |-> node.value, read |-> node.value,
                                 fd |-> NoFd, by |-> "share"])
    /\ UNCHANGED <<node, editPc, fd, oldNode, statusPc, statusArg,
                   creates, mapFailed, viewVars, permVars, peerRead>>

\* line 363 rejected: lines 377-380
ShareGrantDenied ==
    /\ sharePc = "grant"
    /\ alerts' = alerts + 1
    /\ lastAlert' = shareCatch("grant")
    /\ sharePc' = "idle"
    /\ shareAddr' = Null
    /\ UNCHANGED <<node, editPc, fd, oldNode, writes, statusPc, statusArg,
                   creates, mapFailed, viewVars, permVars, peerRead>>

\* lines 368-373: db.get resolved; node.value of a missing node throws and
\* the catch of lines 377-380 alerts
ShareGot ==
    /\ sharePc = "get"
    /\ IF node.present
       THEN /\ writes' = Append(writes,
                            [value |-> sharedData(node.value, shareAddr),
                             read  |-> node.value,
                             fd    |-> NoFd,
                             by    |-> "share"])
            /\ sharePc' = "set"
            /\ UNCHANGED <<alerts, lastAlert, shareAddr>>
       ELSE /\ alerts' = alerts + 1
            /\ lastAlert' = shareCatch("share-read")
            /\ sharePc' = "idle"
            /\ shareAddr' = Null
            /\ UNCHANGED writes
    /\ UNCHANGED <<node, editPc, fd, oldNode, statusPc, statusArg,
                   creates, mapFailed, viewVars, permVars, peerRead>>

\* line 373 resolved: lines 375-376
ShareSetDone ==
    /\ sharePc = "set"
    /\ node' = Node(LastBy("share"))
    /\ alerts' = alerts + 1
    /\ lastAlert' = Alert(GrantedAlert, "granted")
    /\ sharePc' = "idle"
    /\ shareAddr' = Null
    /\ UNCHANGED <<editPc, fd, oldNode, writes, statusPc, statusArg,
                   creates, mapFailed, viewVars, permVars, peerRead>>

\* line 373 rejected: lines 377-380
ShareSetDenied ==
    /\ sharePc = "set"
    /\ alerts' = alerts + 1
    /\ lastAlert' = shareCatch("share-write")
    /\ sharePc' = "idle"
    /\ shareAddr' = Null
    /\ UNCHANGED <<node, editPc, fd, oldNode, writes, statusPc, statusArg,
                   creates, mapFailed, viewVars, permVars, peerRead>>

\* ------------------------------------------------------------------ peers
\* the record the handlers act on: the newest "sale" record
NodeId == NumSale

\* changeStatus run by another peer, lines 308-311: its db.get returned the
\* record
PeerGot ==
    /\ ~peerRead.present
    /\ node.present
    /\ peerRead' = node
    /\ UNCHANGED <<node, editPc, fd, oldNode, writes, alerts, opsVars,
                   viewVars, permVars>>

\* changeStatus run by another peer, lines 312-313: it writes the value it
\* read with the new status, and the store takes it
PeerStatus(st) ==
    /\ peerRead.present
    /\ node' = Node(updatedStatusData(peerRead.value, st))
    /\ peerRead' = NoNode
    /\ UNCHANGED <<editPc, fd, oldNode, writes, alerts, opsVars, viewVars,
                   permVars>>

\* a peer removes the record; the store reports it to the open subscriptions
\* the record matches, and handleRealtimeUpdate (lines 162-169) fades the
\* card, arms the timer and deletes the marker
PeerRemove ==
    /\ node.present
    /\ node' = NoNode
    /\ IF \E s \in 1..Len(subs) :
             subs[s].open /\ NodeId \in Matches(subs[s].query)
       THEN LET v == handleRealtimeUpdate(View, NodeId, NoValue, "removed")
            IN  /\ grid' = v.grid
                /\ mapMarkers' = v.markers
                /\ expect' = [expect EXCEPT
                                ![NodeId] = Carried(NoValue, "removed")]
       ELSE UNCHANGED <<grid, mapMarkers, expect>>
    /\ UNCHANGED <<form, currentCursor, activeSubscription, loadMoreHidden,
                   pending, subs, cursorSrc, permVars, editPc, fd, oldNode,
                   writes, alerts, opsVars, peerRead>>

\* ----------------------------------------------------- identity functions
\* the alert() texts of lines 487, 493 and 501
AuthAlert    == "Auth Error (HTTPS required)"
PasskeyAlert == "No passkey found."
PhraseAlert  == "Invalid phrase"

\* window.protectIdentity, lines 482-489: the store call resolved (the
\* modal is hidden) or rejected
protectIdentity(ok) ==
    /\ IF ok
       THEN UNCHANGED <<alerts, lastAlert>>
       ELSE /\ alerts' = alerts + 1
            /\ lastAlert' = Alert(AuthAlert, "protect")
    /\ UNCHANGED <<node, editPc, fd, oldNode, writes, statusPc, statusArg,
                   sharePc, shareAddr, creates, mapFailed, peerRead,
                   viewVars, permVars>>

\* the login found no identity: lines 493 and 501
loginFailed(msg, cause) ==
    /\ alerts' = alerts + 1
    /\ lastAlert' = Alert(msg, cause)
    /\ UNCHANGED <<node, editPc, fd, oldNode, writes, statusPc, statusArg,
                   sharePc, shareAddr, creates, mapFailed, peerRead,
                   viewVars, permVars>>

\* window.loginWebAuthn, lines 490-497: the store logged in address u (and
\* called updateAuthUI), or found no passkey (u = Null)
loginWebAuthn(u) ==
    IF u = Null THEN loginFailed(PasskeyAlert, "passkey")
    ELSE IdentityChange(u)

\* window.loginMnemonic, lines 498-502: the store logged in address u (and
\* called updateAuthUI), or took the phrase for none (u = Null)
loginMnemonic(u) ==
    IF u = Null THEN loginFailed(PhraseAlert, "phrase")
    ELSE IdentityChange(u)

\* window.logout, lines 503-505: db.sm.clearSecurity() leaves no active
\* address, and the store calls updateAuthUI
logout ==
    /\ currentUser # Null
    /\ IdentityChange(Null)

\* ------------------------------------------------- performSearch, rejected
\* line 134: db.map rejects; performSearch has no try/catch, the rest of the
\* call (lines 146-154) does not run
MapReject(i) ==
    /\ i \in 1..Len(pending)
    /\ pending[i].sub = Null
    /\ pending' = RemoveAt(pending, i)
    /\ mapFailed' = mapFailed + 1
    /\ UNCHANGED <<form, grid, mapMarkers, currentCursor, activeSubscription,
                   loadMoreHidden, subs, cursorSrc, expect, permVars, peerRead,
                   node, editPc, fd, oldNode, writes, alerts, statusPc,
                   statusArg, sharePc, shareAddr, creates, lastAlert>>

\* ------------------------------------------------------------------- Spec
PermIdle == currentUser = Null /\ cardP = NoP /\ card = NoCard
OpsIdle  == /\ statusPc = "idle" /\ statusArg = "" /\ sharePc = "idle"
            /\ shareAddr = Null /\ creates = <<>> /\ lastAlert = NoAlert
            /\ mapFailed = 0
MutIdle  == /\ node = NoNode /\ editPc = "idle" /\ fd = NoFd
            /\ oldNode = NoNode /\ writes = <<>> /\ alerts = 0
            /\ OpsIdle /\ peerRead = NoNode

\* initApp, lines 18-33: the state when initApp has called performSearch().
\* The page's markup is not among the sources and initApp does not touch
\* #btn-load-more before the first page arrives, so the button starts either
\* shown or hidden.
ViewInit ==
    /\ form \in Filters
    /\ grid = <<>>
    /\ mapMarkers = NoMarkers
    /\ currentCursor = Null
    /\ activeSubscription = Null
    /\ loadMoreHidden \in BOOLEAN
    /\ pending = <<[lm |-> FALSE, query |-> form, after |-> Null,
                    afterSrc |-> "none", sub |-> Null]>>
    /\ subs = <<>>
    /\ cursorSrc = NoSrc
    /\ expect = [i \in EventIds |-> Unknown]

Init == ViewInit /\ PermIdle /\ MutIdle

\* performSearch invocations so far: the db.map calls that delivered, those
\* still awaiting their page, and those that rejected
Calls ==
    Len(subs) + Cardinality({i \in 1..Len(pending) : pending[i].sub = Null})
        + mapFailed

Next ==
    \/ \E q \in Filters : FormEdit(q)
    \/ Calls < MaxViewCalls /\ SubmitSearch
    \/ Calls < MaxViewCalls /\ updateAuthUI
    \/ Calls < MaxViewCalls /\ loadMore
    \/ \E i \in 1..Len(pending) : MapDeliver(i)
    \/ \E i \in 1..Len(pending) : MapResume(i)
    \/ \E s \in 1..Len(subs), id \in EventIds, value \in StreamValues :
          \E action \in {"added", "updated"} :
             ChangeEvent(s, id, value, action)
    \/ \E s \in 1..Len(subs), id \in EventIds :
          ChangeEvent(s, id, NoValue, "removed")
    \/ \E i \in 1..Len(grid) : CardRemoveTimer(i)

Spec == Init /\ [][Next]_vars

\* ---------------------------------------------------------------- SpecSub
\* the store reports one change: a new record, FreshId
NextSub ==
    \/ \E q \in Filters : FormEdit(q)
    \/ Calls < MaxCalls /\ SubmitSearch
    \/ Calls < MaxCalls /\ updateAuthUI
    \/ Calls < MaxCalls /\ loadMore
    \/ \E i \in 1..Len(pending) : MapDeliver(i)
    \/ \E i \in 1..Len(pending) : MapResume(i)
    \/ \E s \in 1..Len(subs) :
          ChangeEvent(s, FreshId, [status |-> "reserved", geo |-> TRUE],
                      "added")

SpecSub == Init /\ [][NextSub]_vars

\* --------------------------------------------------------------- SpecPerm
InitPerm ==
    /\ ViewInit /\ form = "rent"
    /\ MutIdle
    /\ currentUser \in Identities
    /\ cardP = NoP
    /\ card = NoCard

\* the store reports one record, FreshId, with any owner and collaborators
NextPerm ==
    \/ \E i \in 1..Len(pending) : MapDeliver(i)
    \/ \E i \in 1..Len(pending) : MapResume(i)
    \/ \E s \in 1..Len(subs), p \in CardRecords :
          \E action \in {"added", "updated"} :
             RenderCard(s, FreshId, [status |-> "reserved", geo |-> TRUE], p,
                        action)
    \/ Calls < MaxViewCalls /\ \E u \in Users : loginWebAuthn(u)
    \/ Calls < MaxViewCalls /\ \E u \in Users : loginMnemonic(u)
    \/ Calls < MaxViewCalls /\ logout
    \/ protectIdentity(TRUE)

SpecPerm == InitPerm /\ [][NextPerm]_vars

\* ---------------------------------------------------------------- SpecMut
\* the forms submitted in SpecMut: unforged, or with a forged createdAt and
\* a forged owner
EditForms == {f \in Forms : (f.createdAt = Null) = (f.owner = Null)}

InitMut ==
    /\ ViewInit /\ form = "sale"
    /\ PermIdle
    /\ node \in {Node(v) : v \in {r \in Records : /\ r.createdAt = 1
                                                   /\ r.collaborators = NoCollab}}
    /\ editPc = "idle"
    /\ fd = NoFd
    /\ oldNode = NoNode
    /\ writes = <<>>
    /\ alerts = 0
    /\ OpsIdle
    /\ peerRead = NoNode

NextMut ==
    \/ /\ Len(writes) < MaxWrites
       /\ alerts < MaxAlerts
       /\ \E f \in EditForms : SubmitEdit(f)
    \/ EditGot
    \/ EditSetDone
    \/ EditSetDenied
    \/ PeerGot
    \/ \E st \in {"available", "sold"} : PeerStatus(st)
    \/ PeerRemove

SpecMut == InitMut /\ [][NextMut]_vars

\* ---------------------------------------------------------------- SpecOps
\* the forms submitted in SpecOps: a well-formed price and a malformed one
OpsForms == {f \in Forms : f.createdAt = Null /\ f.owner = Null}

\* the forms published in SpecOps: one with a malformed price, one with a
\* forged owner and a forged createdAt
PublishForms ==
    {f \in Forms : IF f.price = "abc"
                   THEN f.createdAt = Null /\ f.owner = Null
                   ELSE f.createdAt # Null /\ f.owner # Null}

\* Date.now() at the submissions
Clock == {3}

\* the state when the first page of "sale" has been delivered to initApp's
\* performSearch() and its await has resumed (MapDeliver(1), MapResume(1))
ViewLoaded ==
    LET results == Page("sale", Null)
        v       == FoldInitial([grid |-> <<>>, markers |-> NoMarkers], results)
    IN  /\ form = "sale"
        /\ grid = v.grid
        /\ mapMarkers = v.markers
        /\ currentCursor = results[Len(results)]
        /\ activeSubscription = 1
        /\ loadMoreHidden = (Len(results) < PageSize)
        /\ pending = <<>>
        /\ subs = <<[query |-> "sale", after |-> Null, lm |-> FALSE,
                     open |-> TRUE, old |-> FALSE]>>
        /\ cursorSrc = [query |-> "sale", lm |-> FALSE,
                        full |-> (Len(results) = PageSize)]
        /\ expect = [k \in EventIds |->
                        IF InSeq(results, k)
                        THEN Carried(CatalogueValue(k), "initial")
                        ELSE Unknown]

InitOps ==
    /\ ViewLoaded
    /\ currentUser = 1
    /\ cardP = NoP
    /\ card = createCardHTML(currentUser, NoP)
    /\ node \in {Node(v) : v \in {r \in Records : /\ r.createdAt = 1
                                                   /\ r.owner = 1
                                                   /\ r.status = "available"
                                                   /\ r.collaborators = OneReader}}
    /\ editPc = "idle"
    /\ fd = NoFd
    /\ oldNode = NoNode
    /\ writes = <<>>
    /\ alerts = 0
    /\ OpsIdle
    /\ peerRead = NoNode

\* db.sm.acls.set calls so far
Submissions == Len(writes) + Len(creates)

\* the handlers are all back; in SpecOps the user starts one when none is
\* awaiting the store
Quiet == editPc = "idle" /\ statusPc = "idle" /\ sharePc = "idle"

NextOps ==
    \/ \E s \in 1..Len(subs) :
          ChangeEvent(s, NodeId, [status |-> "sold", geo |-> FALSE], "updated")
    \/ \E i \in 1..Len(grid) : CardRemoveTimer(i)
    \/ /\ Submissions < MaxWrites
       /\ alerts < MaxAlerts
       /\ Quiet
       /\ \/ \E f \in OpsForms : SubmitEdit(f)
          \/ \E f \in PublishForms, now \in Clock : SubmitPublish(f, now)
          \/ \E st \in Statuses : changeStatus(st)
          \/ \E addr \in {Null, NumUsers} : confirmShare(addr)
    \/ EditGot
    \/ EditSetDone
    \/ EditSetDenied
    \/ CreateDone
    \/ CreateDenied
    \/ StatusGot
    \/ StatusSetDone
    \/ StatusSetDenied
    \/ ShareGranted
    \/ ShareGrantDenied
    \/ ShareGot
    \/ ShareSetDone
    \/ ShareSetDenied
    \/ PeerRemove

SpecOps == InitOps /\ [][NextOps]_vars

\* --------------------------------------------------------------- SpecFail
NextFail ==
    \/ \E q \in Filters : FormEdit(q)
    \/ Calls < MaxCalls /\ SubmitSearch
    \/ Calls < MaxCalls /\ updateAuthUI
    \/ Calls < MaxCalls /\ loadMore
    \/ \E i \in 1..Len(pending) : MapDeliver(i)
    \/ \E i \in 1..Len(pending) : MapResume(i)
    \/ \E i \in 1..Len(pending) : MapReject(i)
    \/ alerts < MaxAlerts /\ loginWebAuthn(Null)
    \/ alerts < MaxAlerts /\ loginMnemonic(Null)
    \/ alerts < MaxAlerts /\ protectIdentity(FALSE)

SpecFail == Init /\ [][NextFail]_vars

\* --------------------------------------------------------------- SpecRace
\* the writes a handler has passed to db.sm.acls.set(value, id)
WritesBy(flow) == {i \in 1..Len(writes) : writes[i].by = flow}

InitRace ==
    /\ ViewInit /\ form = "sale"
    /\ PermIdle
    /\ node \in {Node(v) : v \in {r \in Records : /\ r.createdAt = 1
                                                   /\ r.owner = 1
                                                   /\ r.status = "available"}}
    /\ editPc = "idle"
    /\ fd = NoFd
    /\ oldNode = NoNode
    /\ writes = <<>>
    /\ alerts = 0
    /\ OpsIdle
    /\ peerRead = NoNode

\* the store resolves every call; each handler is started once, at any time
NextRace ==
    \/ /\ WritesBy("status") = {}
       /\ \E st \in Statuses \ {"available"} : changeStatus(st)
    \/ /\ WritesBy("edit") = {}
       /\ \E f \in OpsForms : SubmitEdit(f)
    \/ /\ WritesBy("share") = {}
       /\ confirmShare(NumUsers)
    \/ StatusGot
    \/ StatusSetDone
    \/ EditGot
    \/ EditSetDone
    \/ ShareGranted
    \/ ShareGot
    \/ ShareSetDone

SpecRace == InitRace /\ [][NextRace]_vars

\* ================================================================ claims
Actions == {"initial", "added", "updated", "removed"}

\* the card of an id, if any, and whether a fade-out timer is pending on it
HasCard(id)  == existingCard(grid, id) # 0
CardOf(id)   == grid[existingCard(grid, id)]
Settled(id)  == ~HasCard(id) \/ ~CardOf(id).fading

\* C1 (as claimed): once the fade-out timers have run, the view entry of an
\* id is the value carried by its last event, and there is none if that
\* event was "removed".
C1_FinalEntryIsLastEvent ==
    \A id \in EventIds :
        (expect[id].kind # "unknown" /\ Settled(id)) =>
            IF expect[id].kind = "absent"
            THEN ~HasCard(id)
            ELSE HasCard(id) /\ CardOf(id).value = expect[id].value

\* the ids C2 folds events for: the two ids with live events, a record of
\* the first page and a record of the second page
ReplayIds == EventIds \cup {NumSale - 1, NumSale - PageSize}

\* C2: folding any change event a second time changes neither the grid
\* (ids, values, positions) nor the marker index.
C2_Idempotent ==
    \A id \in ReplayIds, action \in Actions :
        \A value \in (IF action = "removed" THEN {NoValue}
                       ELSE EventValues \cup {CatalogueValue(id)}) :
            LET once == handleRealtimeUpdate(View, id, value, action)
            IN  handleRealtimeUpdate(once, id, value, action) = once

\* C2 witness: an event has just been folded for a record of the first page
\* and for a record outside it, one with a marker, one fading out
C2_Witness ==
    /\ Len(grid) > PageSize
    /\ expect[NumSale].kind = "value"
    /\ HasCard(NumSale) /\ CardOf(NumSale).value = expect[NumSale].value
    /\ expect[FreshId].kind = "absent"
    /\ HasCard(FreshId) /\ CardOf(FreshId).fading
    /\ NumSale \in DOMAIN mapMarkers

\* C9: no two cards of the grid carry the same record id.
C9_UniqueIds ==
    \A i, j \in 1..Len(grid) : grid[i].id = grid[j].id => i = j

\* C9 witness: the first card of the page was replaced in place by a later
\* event for its id, a live record was appended, and a second page was loaded
C9_Witness ==
    /\ Len(grid) > PageSize + 1
    /\ grid[1].id = NumSale
    /\ grid[1].value \in EventValues
    /\ HasCard(FreshId)
    /\ Len(subs) = 2

\* C10 (as claimed): once "removed" is the last event folded for an id, the
\* id has no marker and no card other than one that is fading out.
C10_RemovedIsPurged ==
    \A id \in EventIds :
        expect[id].kind = "absent" =>
            /\ id \notin DOMAIN mapMarkers
            /\ (HasCard(id) => CardOf(id).fading)

\* C3 (as claimed): an event of a subscription that was open when a later
\* performSearch(false) ran changes neither the grid nor the markers.
C3_OldEventsDropped ==
    [][\A s \in 1..Len(subs) :
          (subs[s].old /\ ChangeEvent(s, FreshId,
                            [status |-> "reserved", geo |-> TRUE], "added"))
          => UNCHANGED <<grid, mapMarkers>>]_vars

\* C4 (as claimed): at most one subscription is open.
C4_AtMostOneActive ==
    Cardinality({s \in 1..Len(subs) : subs[s].open}) <= 1

\* createdAt descending: a is older than b
Older(a, b) == a < b

\* C7 (as claimed): when a load-more returns a full page and the cursor was
\* set by a load-more of the same query that returned a full page, the new
\* cursor is strictly older than the one it replaces.
C7_CursorMonotone ==
    [][\A i \in 1..Len(pending) :
          (/\ MapResume(i)
           /\ pending[i].lm
           /\ Len(Page(pending[i].query, pending[i].after)) = PageSize
           /\ cursorSrc.lm /\ cursorSrc.full
           /\ cursorSrc.query = pending[i].query)
          => Older(currentCursor', currentCursor)]_vars

\* C8 (as claimed): a search opened by performSearch(false) passes a null
\* cursor, and a load-more passes a cursor taken from a page of its own query.
C8_CursorOfOwnQuery ==
    \A i \in 1..Len(pending) :
        /\ ~pending[i].lm => pending[i].after = Null
        /\ (pending[i].lm /\ pending[i].after # Null)
              => pending[i].afterSrc = pending[i].query

\* C5: every value the edit flow passes to db.sm.acls.set has the createdAt
\* and the owner of the record db.get returned, whatever the form carried.
C5_EditKeepsCreatedAtAndOwner ==
    \A i \in 1..Len(writes) :
        /\ writes[i].value.createdAt = writes[i].read.createdAt
        /\ writes[i].value.owner = writes[i].read.owner

\* C5 witness: an edit with a forged createdAt and a forged owner was written
C5_Witness ==
    \E i \in 1..Len(writes) :
        /\ writes[i].fd.createdAt # Null
        /\ writes[i].fd.createdAt # writes[i].read.createdAt
        /\ writes[i].fd.owner # Null
        /\ writes[i].fd.owner # writes[i].read.owner
        /\ writes[i].value.title # writes[i].read.title

\* the capability of identity u on record p, as the claim defines it
Capability(u, p) ==
    IF u = Null THEN "none"
    ELSE IF u = p.owner THEN "write-owner"
    ELSE IF p.hasCollaborators /\ u \in DOMAIN p.collaborators
            /\ p.collaborators[u] = "write" THEN "write-collaborator"
    ELSE "read"

\* C6: a rendered card shows the edit and status controls exactly when the
\* capability is write-owner or write-collaborator, and the share control
\* exactly when it is write-owner; isOwner and isCollab-without-isOwner are
\* the two write capabilities.
C6_CapabilityDecidesControls ==
    card.rendered =>
        LET cap == Capability(currentUser, cardP) IN
        /\ card.edit   = (cap \in {"write-owner", "write-collaborator"})
        /\ card.status = (cap \in {"write-owner", "write-collaborator"})
        /\ card.share  = (cap = "write-owner")
        /\ isOwner(currentUser, cardP) = (cap = "write-owner")
        /\ (isCollab(currentUser, cardP) /\ ~isOwner(currentUser, cardP))
              = (cap = "write-collaborator")

\* C6 witness: a card rendered for a collaborator with level write, on a
\* record that also lists a collaborator with another level
C6_Witness ==
    /\ card.rendered
    /\ Capability(currentUser, cardP) = "write-collaborator"
    /\ \E u \in DOMAIN cardP.collaborators : cardP.collaborators[u] = "read"
    /\ card.edit /\ ~card.share

\* a step of changeStatus, confirmShare or the submit handler
HandlerStep ==
    <<editPc, fd, oldNode, writes, alerts, statusPc, statusArg, sharePc,
      shareAddr, creates, lastAlert>>' #
    <<editPc, fd, oldNode, writes, alerts, statusPc, statusArg, sharePc,
      shareAddr, creates, lastAlert>>

\* C11: no step of changeStatus, confirmShare or the submit handler changes
\* the grid or the markers; a step that changes them is the fold of a change
\* event (live, or of the page db.map returns), the fade-out timer of a
\* removed card, or the clearing by performSearch(false).
C11_MutationsLeaveView ==
    [][/\ HandlerStep => View' = View
       /\ View' # View =>
            \/ \E i \in 1..Len(pending) : MapDeliver(i)
            \/ \E s \in 1..Len(subs), id \in EventIds, a \in Actions :
                  \E v \in EventValues \cup {NoValue} : ChangeEvent(s, id, v, a)
            \/ PeerRemove
            \/ \E i \in 1..Len(grid) : CardRemoveTimer(i)
            \/ SubmitSearch
            \/ updateAuthUI]_vars

\* C11 witness: a status change, an edit or a share was written and taken by
\* the store while the grid showed the first page, unchanged
C11_Witness ==
    /\ Len(grid) = PageSize
    /\ \A i \in 1..Len(grid) : grid[i].value = CatalogueValue(grid[i].id)
    /\ writes # <<>>
    /\ node.present /\ node.value = writes[Len(writes)].value
    /\ Quiet

\* C12: when db.get returns the record, changeStatus passes one value to
\* db.sm.acls.set: the record read, with status replaced by newStatus and
\* every other field (createdAt, owner, collaborators included) as read; the
\* rest of the handler passes none.
C12_StatusWriteIsReadPlusStatus ==
    [][/\ (statusPc = "get" /\ statusPc' # "get" /\ node.present) =>
            /\ Len(writes') = Len(writes) + 1
            /\ SubSeq(writes', 1, Len(writes)) = writes
            /\ creates' = creates
            /\ LET w == writes'[Len(writes')] IN
               /\ DOMAIN w.value = DOMAIN node.value
               /\ w.value.status = statusArg
               /\ \A k \in DOMAIN node.value \ {"status"} :
                     w.value[k] = node.value[k]
       /\ (statusPc = "set" /\ statusPc' # "set") =>
            writes' = writes /\ creates' = creates]_vars

\* C12 witness: changeStatus has returned after writing a status other than
\* the one it read, and the store holds the written value
C12_Witness ==
    /\ statusPc = "idle"
    /\ \E i \in 1..Len(writes) :
          /\ writes[i].by = "status"
          /\ writes[i].value.status # writes[i].read.status
          /\ node = Node(writes[i].value)

\* C13: when db.sm.acls.set rejects the write of changeStatus, of the edit
\* flow or of the create flow, the handler alerts once and returns; it
\* passes no further value to db.sm.acls.set and changes neither the grid
\* nor the markers.
C13_RejectionAlertsNoRetry ==
    [][/\ (StatusSetDenied \/ EditSetDenied \/ CreateDenied) =>
            /\ alerts' = alerts + 1
            /\ lastAlert'.msg \in {StatusAlert, SaveAlert}
            /\ writes' = writes
            /\ creates' = creates
            /\ View' = View
       /\ StatusSetDenied => statusPc' = "idle"
       /\ (EditSetDenied \/ CreateDenied) => editPc' = "idle"]_vars

\* C13 witness: the last alert reports a rejected write, every handler has
\* returned and the grid shows the first page
C13_Witness ==
    /\ lastAlert.cause \in {"status-write", "edit-write", "create-write"}
    /\ alerts = MaxAlerts
    /\ Quiet
    /\ Len(grid) = PageSize

\* C14: when db.get returns no node, changeStatus and the edit flow return
\* without passing a value to db.sm.acls.set.
C14_AbsentNodeNoWrite ==
    [][((statusPc = "get" /\ statusPc' # "get" /\ ~node.present) =>
            (writes' = writes /\ creates' = creates /\ statusPc' = "idle"))
       /\ ((editPc = "get" /\ editPc' # "get" /\ ~node.present) =>
            (writes' = writes /\ creates' = creates /\ editPc' = "idle"))]_vars

\* C14 witness: the record is gone; a changeStatus and an edit have both
\* read it as missing and returned, and nothing was written
C14_Witness ==
    /\ ~node.present
    /\ statusArg # "" /\ statusPc = "idle"
    /\ lastAlert.cause = "edit-read" /\ editPc = "idle"
    /\ writes = <<>> /\ creates = <<>>

\* C15 (as claimed): no value passed to db.sm.acls.set by the edit flow or
\* the create flow comes from a form whose price is not a number.
C15_MalformedNeverWritten ==
    /\ \A i \in 1..Len(writes) :
          writes[i].by = "edit" => Number(writes[i].fd.price) # "NaN"
    /\ \A i \in 1..Len(creates) : Number(creates[i].fd.price) # "NaN"

\* C16 (as claimed): the alert shown when the grant succeeded and the read
\* or the write after it failed differs from the alert shown when the grant
\* itself is rejected.
C16_ShareOutcomesDistinct ==
    lastAlert.cause \in {"share-read", "share-write"} =>
        lastAlert.msg # shareCatch("grant").msg

\* C17 (as claimed): when a db.map call of performSearch rejects, the user
\* is shown an indication (the program's only one is alert()).
C17_FailureIsIndicated ==
    [][\A i \in 1..Len(pending) :
          (pending[i].sub = Null /\ pending' = RemoveAt(pending, i))
             => (alerts' = alerts + 1 /\ lastAlert' # NoAlert)]_vars

\* C18 (as claimed): the cards of the grid are in createdAt-descending
\* order (createdAt of record i is i).
C18_GridOrdered ==
    \A i, j \in 1..Len(grid) : i < j => Older(grid[j].id, grid[i].id)

\* C19 (as claimed): an "updated" event delivered by the active subscription
\* for an id that has no card gives the id a card.
C19_UpdatedOnAbsentIsAdded ==
    [][\A id \in EventIds, value \in EventValues :
          (/\ activeSubscription # Null
           /\ ChangeEvent(activeSubscription, id, value, "updated")
           /\ ~HasCard(id))
          => existingCard(grid', id) # 0]_vars

\* C20: an "added" or "updated" event for an id that has a card puts the
\* event's value in the card at the same position and leaves the number of
\* cards and every other card as they were; the "initial" events of the page
\* a resolved db.map returns (the step that opens a subscription) keep every
\* card at its position and leave the cards of the ids outside the page as
\* they were.
C20_ReplacedInPlace ==
    [][/\ \A id \in EventIds, value \in EventValues :
          (/\ HasCard(id)
           /\ expect'[id] = Carried(value, "updated")
           /\ \E s \in 1..Len(subs), action \in {"added", "updated"} :
                 ChangeEvent(s, id, value, action))
          => LET e == existingCard(grid, id) IN
             /\ Len(grid') = Len(grid)
             /\ grid'[e].id = id
             /\ grid'[e].value = value
             /\ \A j \in 1..Len(grid) : j # e => grid'[j] = grid[j]
       /\ Len(subs') > Len(subs) =>
             LET opened == subs'[Len(subs')] IN
             /\ Len(grid') >= Len(grid)
             /\ \A j \in 1..Len(grid) :
                   /\ grid'[j].id = grid[j].id
                   /\ grid'[j] # grid[j]
                         => InSeq(Page(opened.query, opened.after),
                                  grid[j].id)]_vars

\* C20 witness: the newest record heads a full first page with the value of
\* a later event for it, the other cards are as db.map returned them
C20_Witness ==
    /\ Len(grid) = PageSize
    /\ grid[1].id = NumSale
    /\ expect[NumSale].kind = "value"
    /\ grid[1].value = expect[NumSale].value
    /\ grid[1].value # CatalogueValue(NumSale)
    /\ \A j \in 2..Len(grid) :
          grid[j].id = NumSale + 1 - j /\ grid[j].value = CatalogueValue(grid[j].id)

\* the step in which db.map delivered a page: it opened a subscription
Resolved == Len(subs') > Len(subs)
\* the call it ran for, and the page db.map returned to it
Opened  == subs'[Len(subs')]
Results == Page(Opened.query, Opened.after)
\* the step in which the await of the i-th pending call resumed, and the
\* page db.map returned to it
Resumed(i) ==
    /\ i \in 1..Len(pending)
    /\ pending[i].sub # Null
    /\ pending' = RemoveAt(pending, i)
PageOf(i) == Page(pending[i].query, pending[i].after)

\* C21 (as claimed): a page of fewer than PageSize records leaves the cursor
\* where it was and hides #btn-load-more; a page of PageSize records sets the
\* cursor to its last record and shows #btn-load-more.
C21_ShortPageKeepsCursor ==
    [][\A i \in 1..Len(pending) :
          Resumed(i) =>
             LET r == PageOf(i) IN
             IF Len(r) < PageSize
             THEN currentCursor' = currentCursor /\ loadMoreHidden'
             ELSE currentCursor' = r[Len(r)] /\ ~loadMoreHidden']_vars

\* C21 (amended): a page with no record leaves the cursor where it was; a
\* page with at least one record, short or full, sets the cursor to its last
\* record; #btn-load-more is hidden exactly when the page has fewer than
\* PageSize records.
C21_CursorIsLastOfNonEmptyPage ==
    [][\A i \in 1..Len(pending) :
          Resumed(i) =>
             LET r == PageOf(i) IN
             /\ IF Len(r) = 0
                THEN currentCursor' = currentCursor
                ELSE currentCursor' = r[Len(r)]
             /\ loadMoreHidden' = (Len(r) < PageSize)]_vars

\* C21 witness: the cursor was taken from a short page of a load-more (the
\* last record of the query), after full pages, and #btn-load-more is hidden
C21_Witness ==
    /\ currentCursor = 1
    /\ cursorSrc.lm /\ ~cursorSrc.full
    /\ loadMoreHidden
    /\ pending = <<>>

\* C22: confirmShare passes a value to db.sm.acls.set only from the point
\* it reaches when db.sm.acls.grant has resolved; when the grant is rejected
\* the handler returns without a write; the value written is the record
\* db.get returned after the grant, with addr -> "write" in its collaborators
\* and every other field and every other collaborator as read.
C22_ShareWritesAfterGrant ==
    [][/\ (sharePc = "grant" /\ sharePc' # "grant") =>
            /\ writes' = writes
            /\ sharePc' = "get" => alerts' = alerts
            /\ sharePc' # "get" => (sharePc' = "idle" /\ alerts' = alerts + 1)
       /\ (sharePc' = "get" /\ sharePc # "get") => sharePc = "grant"
       /\ (/\ Len(writes') > Len(writes)
           /\ writes'[Len(writes')].by = "share") =>
            LET w   == writes'[Len(writes')]
                old == node.value.collaborators
                new == w.value.collaborators
            IN  /\ sharePc = "get"
                /\ Len(writes') = Len(writes) + 1
                /\ w.read = node.value
                /\ DOMAIN w.value = DOMAIN node.value
                /\ \A k \in DOMAIN node.value \ {"collaborators"} :
                      w.value[k] = node.value[k]
                /\ DOMAIN new = DOMAIN old \cup {shareAddr}
                /\ new[shareAddr] = "write"
                /\ \A u \in DOMAIN old \ {shareAddr} : new[u] = old[u]]_vars

\* C22 witness: after an earlier alert, a share went through on a record
\* that already had another collaborator, and it is the only write
C22_Witness ==
    /\ sharePc = "idle"
    /\ lastAlert.cause = "granted"
    /\ alerts = MaxAlerts
    /\ Len(writes) = 1
    /\ writes[1].by = "share"
    /\ writes[1].read.collaborators = OneReader
    /\ DOMAIN writes[1].value.collaborators = {2, NumUsers}
    /\ writes[1].value.collaborators[NumUsers] = "write"
    /\ node = Node(writes[1].value)

\* C23: a submit with no edit id passes one value to db.sm.acls.set, with
\* no id, whose owner is the active address, whose status is "available",
\* whose collaborators map is empty and whose createdAt is Date.now(),
\* whatever the form carries; the handler passes nothing else.
C23_PublishCreatesOnce ==
    [][/\ (editPc = "idle" /\ editPc' = "create") =>
            /\ Len(creates') = Len(creates) + 1
            /\ SubSeq(creates', 1, Len(creates)) = creates
            /\ writes' = writes
            /\ LET w == creates'[Len(creates')] IN
               /\ w.value.owner = currentUser
               /\ w.value.status = "available"
               /\ DOMAIN w.value.collaborators = {}
               /\ w.now \in Clock
               /\ w.value.createdAt = w.now
               /\ w.value.title = w.fd.title
       /\ (editPc = "create" /\ editPc' # "create") =>
            creates' = creates /\ writes' = writes
       /\ creates' # creates => (editPc = "idle" /\ editPc' = "create")]_vars

\* C23 witness: a form carrying another owner and another createdAt was
\* published and the handler has returned
C23_Witness ==
    /\ editPc = "idle"
    /\ \E i \in 1..Len(creates) :
          /\ creates[i].fd.owner \notin {Null, creates[i].value.owner}
          /\ creates[i].fd.createdAt \notin {Null, creates[i].value.createdAt}
          /\ creates[i].value.owner = currentUser

\* C24 (as claimed): when a changeStatus, an edit and a confirmShare on the
\* record have all written and returned, the stored record has the status
\* changeStatus wrote, the title and price the edit wrote and the
\* collaborator confirmShare added.
C24_NoLostUpdate ==
    (/\ Quiet
     /\ WritesBy("status") # {} /\ WritesBy("edit") # {}
     /\ WritesBy("share") # {})
    => /\ node.present
       /\ node.value.status = LastBy("status").status
       /\ node.value.title = LastBy("edit").title
       /\ node.value.price = LastBy("edit").price
       /\ NumUsers \in DOMAIN node.value.collaborators
       /\ node.value.collaborators[NumUsers] = "write"

\* C25 (as claimed): once a search for another filter has opened its
\* subscription, no subscription opened before it is still open.
C25_NoLeakedSubscription ==
    \A s, t \in 1..Len(subs) :
        (s < t /\ ~subs[t].lm /\ subs[t].query # subs[s].query)
            => ~subs[s].open

\* C26: the click on #btn-load-more changes neither the grid, nor the
\* markers, nor the cursor; when the page of a load-more is delivered, every
\* card is still at its position with its value and every marker is kept.
C26_LoadMoreIsAdditive ==
    [][/\ (Len(pending') > Len(pending) /\ pending'[Len(pending')].lm) =>
            /\ UNCHANGED <<grid, mapMarkers, currentCursor>>
            /\ pending'[Len(pending')].after = currentCursor
       /\ (Resolved /\ Opened.lm) =>
            /\ Len(grid') >= Len(grid)
            /\ \A j \in 1..Len(grid) : grid'[j] = grid[j]
            /\ \A id \in DOMAIN mapMarkers :
                  id \in DOMAIN mapMarkers' /\ mapMarkers'[id] = mapMarkers[id]
       /\ \A i \in 1..Len(pending) :
             (Resumed(i) /\ pending[i].lm) => UNCHANGED <<grid, mapMarkers>>
       ]_vars

\* C26 witness: a load-more delivered the second page below the first one,
\* with a live card in between
C26_Witness ==
    /\ pending = <<>>
    /\ Len(subs) = 2 /\ subs[2].lm
    /\ Len(grid) = 2 * PageSize + 1
    /\ \A j \in 1..PageSize : grid[j].id = NumSale + 1 - j
    /\ grid[PageSize + 1].id = FreshId
    /\ \A j \in 2..(PageSize + 1) : grid[PageSize + j].id = NumSale + 1 - PageSize - j + 1
    /\ mapMarkers # NoMarkers

====
